---- MODULE Spec2Model ----
(***************************************************************************)
(* A model of src/github.ts: the GitHub adapter that reconciles CI jobs    *)
(* with remote check runs (checksToCreate, createCheck) and looks up the   *)
(* latest Travis status of a pull request (getLatestTravisStatus).         *)
(*                                                                         *)
(* Identifier strings (domain, build id, job id, external_id, check run    *)
(* id) are sequences of one-character strings, so that the template        *)
(* literal of getChecksCreateParams, String.split and Number.toString are  *)
(* modelled by what they do.  Names, states, statuses and conclusions are  *)
(* only ever compared for equality and are TLA+ strings.                   *)
(***************************************************************************)
EXTENDS Integers, Sequences, FiniteSets

VARIABLES
    ciJob,          \* the CI system's current snapshot of job 7 of the build
    appId,          \* this.appId (readonly field)
    buildInfo,      \* this.buildInfo (readonly field)
    remoteChecks,   \* the check runs on the head commit, in the order the remote lists them
    nextId,         \* the id the remote gives the next check run it creates
    pc,             \* per task: where the task stands in checksToCreate / createCheck
    newJobs,        \* per task: the argument of the last checksToCreate call
    page,           \* per task: the page of the listing requested next
    collected,      \* per task: what paginate has collected so far (filtered by app id)
    listed,         \* per task: "none" | "ok" | "error": how getExistingChecks ended
    existingChecks, \* per task: what getExistingChecks returned
    create,         \* per task: what the last checksToCreate call returned
    jobInfo,        \* per task: the argument of the last createCheck call
    payload,        \* per task: the payload of the last createCheck call
    outputCalls,    \* per task: getJobOutput invocations of the last createCheck call
    outputErr,      \* per task: the last createCheck call logged an error of getJobOutput
    createCalls,    \* per task: client.checks.create invocations of the last createCheck call
    result,         \* per task: the response of client.checks.create
    ret,            \* per task: what the last createCheck call returned
    pr,             \* the pull request as the remote reports it
    statuses,       \* the statuses of the head commit, in the order the remote lists them
    tpc,            \* getLatestTravisStatus: where the call stands
    tpage,          \* getLatestTravisStatus: the page of statuses requested next
    travisStatus,   \* getLatestTravisStatus: the local travisStatus
    tret,           \* getLatestTravisStatus: the value returned
    tlogged         \* getLatestTravisStatus: the call logged an error

instVars   == <<appId, buildInfo>>
remoteVars == <<remoteChecks, nextId>>
diffVars   == <<newJobs, page, collected, listed, existingChecks, create>>
checkVars  == <<jobInfo, payload, outputCalls, outputErr, createCalls, result, ret>>
travisVars == <<pr, statuses, tpc, tpage, travisStatus, tret, tlogged>>
vars == <<ciJob, instVars, remoteVars, pc, diffVars, checkVars, travisVars>>

----------------------------------------------------------------------------
(* Bounds of the model *)

\* the remote holds at most MaxChecks check runs on the head commit
MaxChecks == 3
\* the page size of the listings (per_page: 100 in the source, scaled down)
PerPage == 2
\* the most statuses on the head commit
MaxStatuses == 3
\* the id of the first check run the remote creates
FirstId == 9

----------------------------------------------------------------------------
(* Values *)

Tasks == {"t1", "t2"}

\* JavaScript's undefined where a string is expected (no string is this sequence:
\* the characters of a string are one-character strings)
Undefined == <<"undefined">>
\* a key that an object does not carry
Absent == "absent"

MyAppId == 1
OtherAppId == 2
TheBuild == [domain |-> <<"c", "i">>, id |-> <<"4", "2">>, headSha |-> "abc"]

JobIds == {<<"7">>, <<"8">>}
States == {"queued", "started", "passed", "failed", "errored", "canceled", "unknown"}

\* a JobInfo snapshot (url and startedAt are copied into the payload and play no
\* other part; they are left out)
JobInfos(ids, names, states, flags) ==
    [jobId : ids, name : names, state : states, ignoreFailure : flags, finishedAt : {"t9"}]

NoJob == [jobId |-> Undefined, name |-> Absent, state |-> Absent,
          ignoreFailure |-> FALSE, finishedAt |-> Absent]
NoPayload == [external_id |-> Undefined, head_sha |-> Absent, name |-> Absent,
              status |-> Absent, conclusion |-> Absent, completed_at |-> Absent,
              output |-> Absent]
NoResult == [ok |-> FALSE, id |-> 0]

----------------------------------------------------------------------------
(* Pure functions of the source *)

FINISHED_STATES == {"passed", "failed", "errored", "canceled"}

FINISHED_STATES_NoErrored == {"passed", "failed", "canceled"}

GetStatus_Mut(j) ==
    IF j.state \in FINISHED_STATES_NoErrored THEN "completed"
    ELSE IF j.state = "started" THEN "in_progress"
    ELSE "queued"

GetStatus(j) ==
    IF j.state \in FINISHED_STATES THEN "completed"
    ELSE IF j.state = "started" THEN "in_progress"
    ELSE "queued"

GetConclusion_Mut(j) ==
    IF j.state = "passed" THEN "success"
    ELSE IF j.state = "failed" THEN "failure"
    ELSE IF j.state = "canceled" THEN "cancelled"
    ELSE "neutral"

GetConclusion(j) ==
    IF j.state = "passed" THEN "success"
    ELSE IF j.state = "failed" /\ ~j.ignoreFailure THEN "failure"
    ELSE IF j.state = "canceled" THEN "cancelled"
    ELSE "neutral"

\* the template literal `${domain}/${id}/${jobId}`
ExternalId(b, j) == b.domain \o <<"/">> \o b.id \o <<"/">> \o j.jobId

GetChecksCreateParams(b, j) ==
    [external_id |-> ExternalId(b, j), head_sha |-> b.headSha, name |-> j.name,
     status |-> GetStatus(j), conclusion |-> Absent, completed_at |-> Absent,
     output |-> Absent]

\* String.prototype.split('/')
RECURSIVE Split(_)
Split(s) ==
    IF \E i \in 1..Len(s) : s[i] = "/"
    THEN LET i == CHOOSE k \in 1..Len(s) : s[k] = "/" /\ \A m \in 1..(k - 1) : s[m] # "/"
         IN  <<SubSeq(s, 1, i - 1)>> \o Split(SubSeq(s, i + 1, Len(s)))
    ELSE <<s>>

\* array destructuring: the i-th element, undefined when the array is shorter
Nth(a, i) == IF i <= Len(a) THEN a[i] ELSE Undefined

\* !c.external_id : undefined, null and the empty string are falsy
Falsy(s) == s = Undefined \/ s = <<>>

IsCheckForJob(b, c, j) ==
    IF Falsy(c.external_id) THEN FALSE
    ELSE LET f == Split(c.external_id)
         IN  b.domain = Nth(f, 1) /\ b.id = Nth(f, 2) /\ j.jobId = Nth(f, 3)

\* Array.prototype.find: the first element that satisfies the test
RECURSIVE Find(_, _, _)
Find(b, cs, j) ==
    IF cs = <<>> THEN <<>>
    ELSE IF IsCheckForJob(b, Head(cs), j) THEN <<Head(cs)>>
    ELSE Find(b, Tail(cs), j)

NeedsCreate(b, cs, j) ==
    LET existing == Find(b, cs, j)
    IN  \/ existing = <<>>
        \/ GetStatus(j) # existing[1].status
        \/ j.name # existing[1].name

\* the loop of checksToCreate over newJobs
RECURSIVE ChecksToCreate(_, _, _)
ChecksToCreate(b, cs, js) ==
    IF js = <<>> THEN <<>>
    ELSE (IF NeedsCreate(b, cs, Head(js)) THEN <<Head(js)>> ELSE <<>>)
         \o ChecksToCreate(b, cs, Tail(js))

\* Number.prototype.toString
Digits == <<"0", "1", "2", "3", "4", "5", "6", "7", "8", "9">>
RECURSIVE IdToString(_)
IdToString(n) ==
    IF n < 10 THEN <<Digits[n + 1]>>
    ELSE IdToString(n \div 10) \o <<Digits[(n % 10) + 1]>>


----------------------------------------------------------------------------
(* The remote service *)

\* the check run the remote makes of a create call authenticated as app `app`
CheckRunOf(p, id, app) ==
    [id |-> id, app |-> app, external_id |-> p.external_id, status |-> p.status,
     name |-> p.name]

InsertAt(s, pos, e) == SubSeq(s, 1, pos) \o <<e>> \o SubSeq(s, pos + 1, Len(s))

\* the create call replaces a check run that carries the same external_id
ChecksCreate_Mut(cs, p, id, app, pos) ==
    IF \E i \in 1..Len(cs) : cs[i].external_id = p.external_id
    THEN LET i == CHOOSE k \in 1..Len(cs) : cs[k].external_id = p.external_id
         IN  [cs EXCEPT ![i] = CheckRunOf(p, id, app)]
    ELSE InsertAt(cs, pos, CheckRunOf(p, id, app))

\* client.checks.create(payload): one more check run on the head commit, listed at
\* a place the remote chooses
ChecksCreate(cs, p, id, app, pos) == InsertAt(cs, pos, CheckRunOf(p, id, app))

\* one page of a listing, and whether the response links to a next page
PageOf(s, n) == SubSeq(s, (n - 1) * PerPage + 1, IF n * PerPage < Len(s) THEN n * PerPage ELSE Len(s))
HasNextPage(s, n) == Len(s) > n * PerPage

----------------------------------------------------------------------------
(* checksToCreate *)

\* the reducer of getExistingChecks: the check runs of this app on the page
MyChecksOnPage(data, app) == SelectSeq(data, LAMBDA c : c.app = app)

\* a variant: the catch clause keeps the pages collected before the failure
GetExistingChecksCatch_Mut(got) == got

\* the catch clause of getExistingChecks
GetExistingChecksCatch(got) == <<>>

CallChecksToCreate(t, js) ==
    /\ pc[t] = "idle"
    /\ pc' = [pc EXCEPT ![t] = "listing"]
    /\ newJobs' = [newJobs EXCEPT ![t] = js]
    /\ page' = [page EXCEPT ![t] = 1]
    /\ collected' = [collected EXCEPT ![t] = <<>>]
    /\ listed' = [listed EXCEPT ![t] = "none"]
    /\ existingChecks' = [existingChecks EXCEPT ![t] = <<>>]
    /\ create' = [create EXCEPT ![t] = <<>>]
    /\ UNCHANGED <<ciJob, instVars, remoteVars, checkVars, travisVars>>

\* what checksToCreate does once getExistingChecks has returned `cs`
FinishChecksToCreate(t, cs, how) ==
    /\ existingChecks' = [existingChecks EXCEPT ![t] = cs]
    /\ listed' = [listed EXCEPT ![t] = how]
    /\ create' = [create EXCEPT ![t] = ChecksToCreate(buildInfo, cs, newJobs[t])]
    /\ collected' = [collected EXCEPT ![t] = <<>>]
    /\ pc' = [pc EXCEPT ![t] = "idle"]
    /\ UNCHANGED page

ListPageReturns(t) ==
    /\ pc[t] = "listing"
    /\ LET got == collected[t] \o MyChecksOnPage(PageOf(remoteChecks, page[t]), appId)
       IN  IF HasNextPage(remoteChecks, page[t])
           THEN /\ page' = [page EXCEPT ![t] = @ + 1]
                /\ collected' = [collected EXCEPT ![t] = got]
                /\ UNCHANGED <<pc, listed, existingChecks, create>>
           ELSE FinishChecksToCreate(t, got, "ok")
    /\ UNCHANGED <<ciJob, instVars, remoteVars, newJobs, checkVars, travisVars>>

ListPageFails(t) ==
    /\ pc[t] = "listing"
    /\ FinishChecksToCreate(t, GetExistingChecksCatch(collected[t]), "error")
    /\ UNCHANGED <<ciJob, instVars, remoteVars, newJobs, checkVars, travisVars>>

----------------------------------------------------------------------------
(* createCheck *)

Outcomes == {"output", "nothing", "throws"}

\* createCheck calls in flight
InFlight == Cardinality({t \in Tasks : pc[t] \in {"getJobOutput", "create"}})

\* a variant: the output of a cancelled job is fetched like any other
SkipsOutput_Mut(conclusion) == FALSE

\* addCompletionInfo returns before the output fetch
SkipsOutput(conclusion) == conclusion = "cancelled"

\* a variant: an error of getJobOutput leaves addCompletionInfo and createCheck
AfterGetJobOutput_Mut(outcome) == IF outcome = "throws" THEN "threw" ELSE "create"

\* where createCheck goes on once getJobOutput has settled: its error is caught
\* inside addCompletionInfo
AfterGetJobOutput(outcome) == "create"

\* the test of createCheck before addCompletionInfo
NeedsCompletionInfo(p) == p.status = "completed"

\* the synchronous head of addCompletionInfo
WithCompletion(p, j) ==
    [p EXCEPT !.conclusion = GetConclusion(j), !.completed_at = j.finishedAt]

CallCreateCheck(t, j) ==
    /\ pc[t] = "idle"
    /\ Len(remoteChecks) + InFlight < MaxChecks
    /\ jobInfo' = [jobInfo EXCEPT ![t] = j]
    /\ result' = [result EXCEPT ![t] = NoResult]
    /\ ret' = [ret EXCEPT ![t] = Undefined]
    /\ outputErr' = [outputErr EXCEPT ![t] = FALSE]
    /\ LET p == GetChecksCreateParams(buildInfo, j)
           q == WithCompletion(p, j)
       IN  IF NeedsCompletionInfo(p)
           THEN /\ payload' = [payload EXCEPT ![t] = q]
                /\ IF SkipsOutput(q.conclusion)
                   THEN /\ pc' = [pc EXCEPT ![t] = "create"]
                        /\ outputCalls' = [outputCalls EXCEPT ![t] = 0]
                        /\ createCalls' = [createCalls EXCEPT ![t] = 1]
                   ELSE /\ pc' = [pc EXCEPT ![t] = "getJobOutput"]
                        /\ outputCalls' = [outputCalls EXCEPT ![t] = 1]
                        /\ createCalls' = [createCalls EXCEPT ![t] = 0]
           ELSE /\ payload' = [payload EXCEPT ![t] = p]
                /\ pc' = [pc EXCEPT ![t] = "create"]
                /\ outputCalls' = [outputCalls EXCEPT ![t] = 0]
                /\ createCalls' = [createCalls EXCEPT ![t] = 1]
    /\ UNCHANGED <<ciJob, instVars, remoteVars, diffVars, travisVars>>

GetJobOutputSettles(t, outcome) ==
    /\ pc[t] = "getJobOutput"
    /\ payload' = [payload EXCEPT ![t].output = IF outcome = "output" THEN "out" ELSE @]
    /\ pc' = [pc EXCEPT ![t] = AfterGetJobOutput(outcome)]
    /\ outputErr' = [outputErr EXCEPT ![t] = outcome = "throws"]
    /\ createCalls' = [createCalls EXCEPT ![t] = IF pc'[t] = "create" THEN @ + 1 ELSE @]
    /\ UNCHANGED <<ciJob, instVars, remoteVars, diffVars, jobInfo, outputCalls, result, ret, travisVars>>

ChecksCreateSucceeds(t) ==
    /\ pc[t] = "create"
    /\ \E pos \in 0..Len(remoteChecks) :
          remoteChecks' = ChecksCreate(remoteChecks, payload[t], nextId, appId, pos)
    /\ nextId' = nextId + 1
    /\ result' = [result EXCEPT ![t] = [ok |-> TRUE, id |-> nextId]]
    /\ ret' = [ret EXCEPT ![t] = IdToString(nextId)]
    /\ pc' = [pc EXCEPT ![t] = "idle"]
    /\ UNCHANGED <<ciJob, instVars, diffVars, jobInfo, payload, outputCalls, outputErr, createCalls, travisVars>>

ChecksCreateFails(t) ==
    /\ pc[t] = "create"
    /\ result' = [result EXCEPT ![t] = NoResult]
    /\ ret' = [ret EXCEPT ![t] = Undefined]
    /\ pc' = [pc EXCEPT ![t] = "idle"]
    /\ UNCHANGED <<ciJob, instVars, remoteVars, diffVars, jobInfo, payload, outputCalls, outputErr, createCalls, travisVars>>

----------------------------------------------------------------------------
(* getLatestTravisStatus *)

TravisContext == "continuous-integration/travis-ci/pr"
Contexts == {TravisContext, "continuous-integration/travis-ci/push"}
Urls == {"u1", "u2"}
StatusItems == [context : Contexts, target_url : Urls]

\* pr.head is an object carrying the sha, or missing
PRs == {[head |-> <<>>], [head |-> <<[sha |-> "abc"]>>]}

TheRepo == "o/r"
UndefinedInfo == [defined |-> FALSE, repository |-> Absent, sha |-> Absent, target_url |-> Absent]
StatusInfo(repo, sha, url) == [defined |-> TRUE, repository |-> repo, sha |-> sha, target_url |-> url]

\* the loop of the page callback: the first status of the page with the Travis context
RECURSIVE FirstTravis(_)
FirstTravis(data) ==
    IF data = <<>> THEN <<>>
    ELSE IF Head(data).context = TravisContext THEN <<Head(data)>>
    ELSE FirstTravis(Tail(data))

\* a variant: done() does not end the pagination
StopsPaginating_Mut(found, more) == ~more

\* paginate requests no further page once the callback has called done(), or when
\* the response links to no next page
StopsPaginating(found, more) == found \/ ~more

\* the catch clause of getLatestTravisStatus: log, return undefined
TravisCatch == "returned"

\* the tail of getLatestTravisStatus, after paginate
TravisResult(found) ==
    IF found = <<>> THEN UndefinedInfo
    ELSE StatusInfo(TheRepo, pr.head[1].sha, found[1].target_url)

CallGetLatestTravisStatus ==
    /\ tpc = "idle"
    /\ tpc' = "getPR"
    /\ tpage' = 1
    /\ travisStatus' = <<>>
    /\ tret' = UndefinedInfo
    /\ tlogged' = FALSE
    /\ UNCHANGED <<ciJob, instVars, remoteVars, pc, diffVars, checkVars, pr, statuses>>

PullRequestReturns ==
    /\ tpc = "getPR"
    /\ IF pr.head = <<>>
       THEN /\ tpc' = "returned"
            /\ tret' = UndefinedInfo
       ELSE /\ tpc' = "statuses"
            /\ UNCHANGED tret
    /\ UNCHANGED <<ciJob, instVars, remoteVars, pc, diffVars, checkVars, pr, statuses, tpage,
                   travisStatus, tlogged>>

StatusPageReturns ==
    /\ tpc = "statuses"
    /\ LET hit == FirstTravis(PageOf(statuses, tpage))
           found == IF hit # <<>> THEN hit ELSE travisStatus
       IN  /\ travisStatus' = found
           /\ IF StopsPaginating(hit # <<>>, HasNextPage(statuses, tpage))
              THEN /\ tret' = TravisResult(found)
                   /\ tpc' = "returned"
                   /\ UNCHANGED tpage
              ELSE /\ tpage' = tpage + 1
                   /\ UNCHANGED <<tpc, tret>>
    /\ UNCHANGED <<ciJob, instVars, remoteVars, pc, diffVars, checkVars, pr, statuses, tlogged>>

\* pullRequests.get or a page of getStatuses fails
TravisFetchFails ==
    /\ tpc \in {"getPR", "statuses"}
    /\ tpc' = TravisCatch
    /\ tret' = UndefinedInfo
    /\ tlogged' = TRUE
    /\ UNCHANGED <<ciJob, instVars, remoteVars, pc, diffVars, checkVars, pr, statuses, tpage,
                   travisStatus>>

----------------------------------------------------------------------------
(* Initial states *)

\* the state after the constructor, nothing called yet
InitInstance ==
    /\ appId = MyAppId
    /\ buildInfo = TheBuild
    /\ nextId = FirstId
    /\ pc = [t \in Tasks |-> "idle"]
    /\ newJobs = [t \in Tasks |-> <<>>]
    /\ page = [t \in Tasks |-> 1]
    /\ collected = [t \in Tasks |-> <<>>]
    /\ listed = [t \in Tasks |-> "none"]
    /\ existingChecks = [t \in Tasks |-> <<>>]
    /\ create = [t \in Tasks |-> <<>>]
    /\ jobInfo = [t \in Tasks |-> NoJob]
    /\ payload = [t \in Tasks |-> NoPayload]
    /\ outputCalls = [t \in Tasks |-> 0]
    /\ outputErr = [t \in Tasks |-> FALSE]
    /\ createCalls = [t \in Tasks |-> 0]
    /\ result = [t \in Tasks |-> NoResult]
    /\ ret = [t \in Tasks |-> Undefined]

InitTravisIdle ==
    /\ tpc = "idle"
    /\ tpage = 1
    /\ travisStatus = <<>>
    /\ tret = UndefinedInfo
    /\ tlogged = FALSE

\* the job as the CI system first reports it
FirstSnapshot ==
    [jobId |-> <<"7">>, name |-> "build", state |-> "queued", ignoreFailure |-> FALSE,
     finishedAt |-> "t9"]

SeqsUpTo(S, n) == UNION {[1..k -> S] : k \in 0..n}

Init ==
    /\ ciJob = FirstSnapshot
    /\ InitInstance
    /\ remoteChecks = <<>>
    /\ InitTravisIdle
    /\ pr = [head |-> <<>>]
    /\ statuses = <<>>

----------------------------------------------------------------------------
(* Specifications *)

\* the CI system reports progress of the job: queued, started, passed
JobAdvances ==
    /\ ciJob.state \in {"queued", "started"}
    /\ ciJob' = [ciJob EXCEPT !.state = IF @ = "queued" THEN "started" ELSE "passed"]
    /\ UNCHANGED <<instVars, remoteVars, pc, diffVars, checkVars, travisVars>>

\* Spec: one task runs rounds of checksToCreate and createCheck on the current
\* snapshot of one job of the build while the job moves through its states; every
\* check run on the head commit is one that createCheck made.
Next ==
    \/ JobAdvances
    \/ CallChecksToCreate("t1", <<ciJob>>)
    \/ ListPageReturns("t1")
    \/ ListPageFails("t1")
    \/ \E i \in DOMAIN create["t1"] : CallCreateCheck("t1", create["t1"][i])
    \/ \E o \in Outcomes : GetJobOutputSettles("t1", o)
    \/ ChecksCreateSucceeds("t1")
    \/ ChecksCreateFails("t1")

Spec == Init /\ [][Next]_vars

\* SpecRace: two tasks of the caller diff and create the checks of the same
\* finished job at the same time.
RaceJobs == JobInfos({<<"7">>}, {"build"}, {"passed"}, {FALSE})

NextRace ==
    \E t \in Tasks :
        \/ \E j \in RaceJobs : CallChecksToCreate(t, <<j>>)
        \/ ListPageReturns(t)
        \/ ListPageFails(t)
        \/ \E i \in DOMAIN create[t] : CallCreateCheck(t, create[t][i])
        \/ \E o \in Outcomes : GetJobOutputSettles(t, o)
        \/ ChecksCreateSucceeds(t)
        \/ ChecksCreateFails(t)

SpecRace == Init /\ [][NextRace]_vars

\* SpecDiff: one task calls checksToCreate with lists of jobs while the head
\* commit receives check runs from any source: other apps, other builds, earlier
\* rounds of this build, and external ids that are not of the component's form.
DiffJobs ==
    JobInfos({<<"7">>}, {"build"}, {"queued", "started"}, {FALSE})
    \cup JobInfos({<<"8">>}, {"build"}, {"queued"}, {FALSE})
\* the lists of snapshots of the build's jobs: no two of one job
DiffInputs ==
    {js \in SeqsUpTo(DiffJobs, Cardinality(JobIds)) :
        /\ js # <<>>
        /\ \A i, k \in DOMAIN js : i # k => js[i].jobId # js[k].jobId}

ci42_7 == <<"c", "i", "/", "4", "2", "/", "7">>
RemoteCheckRuns ==
    {[id |-> 0, app |-> MyAppId, external_id |-> ci42_7, status |-> "queued", name |-> "build"],
     [id |-> 0, app |-> MyAppId, external_id |-> ci42_7, status |-> "in_progress", name |-> "build"],
     [id |-> 0, app |-> MyAppId, external_id |-> ci42_7, status |-> "queued", name |-> "test"],
     [id |-> 0, app |-> OtherAppId, external_id |-> ci42_7, status |-> "queued", name |-> "build"],
     [id |-> 0, app |-> MyAppId, external_id |-> ci42_7 \o <<"/", "x">>, status |-> "queued", name |-> "build"],
     [id |-> 0, app |-> MyAppId, external_id |-> <<"c", "i", "/", "4", "2">>, status |-> "queued", name |-> "build"],
     [id |-> 0, app |-> MyAppId, external_id |-> <<"c", "i", "/", "4", "3", "/", "7">>, status |-> "queued", name |-> "build"],
     [id |-> 0, app |-> MyAppId, external_id |-> Undefined, status |-> "queued", name |-> "build"]}

\* the head commit receives a check run
RemoteCreates(c) ==
    /\ Len(remoteChecks) < MaxChecks
    /\ remoteChecks' = Append(remoteChecks, [c EXCEPT !.id = nextId])
    /\ nextId' = nextId + 1
    /\ UNCHANGED <<ciJob, instVars, pc, diffVars, checkVars, travisVars>>

NextDiff ==
    \/ \E c \in RemoteCheckRuns : RemoteCreates(c)
    \/ \E js \in DiffInputs : CallChecksToCreate("t1", js)
    \/ ListPageReturns("t1")
    \/ ListPageFails("t1")

SpecDiff == Init /\ [][NextDiff]_vars

\* SpecCreate: one task calls createCheck with jobs in every state.
CreateJobs == JobInfos({<<"7">>}, {"build"}, States, BOOLEAN)

NextCreate ==
    \/ \E j \in CreateJobs : CallCreateCheck("t1", j)
    \/ \E o \in Outcomes : GetJobOutputSettles("t1", o)
    \/ ChecksCreateSucceeds("t1")
    \/ ChecksCreateFails("t1")

SpecCreate == Init /\ [][NextCreate]_vars

\* SpecTravis: getLatestTravisStatus against any pull request and any statuses.
InitTravis ==
    /\ ciJob = FirstSnapshot
    /\ InitInstance
    /\ remoteChecks = <<>>
    /\ InitTravisIdle
    /\ pr \in PRs
    /\ statuses \in SeqsUpTo(StatusItems, MaxStatuses)

NextTravis ==
    \/ CallGetLatestTravisStatus
    \/ PullRequestReturns
    \/ StatusPageReturns
    \/ TravisFetchFails

SpecTravis == InitTravis /\ [][NextTravis]_vars

----------------------------------------------------------------------------
(* Properties *)

\* the last checksToCreate call of t has returned / the last createCheck call of t
\* has returned
Diffed(t) == pc[t] = "idle" /\ listed[t] # "none"
Created(t) == pc[t] = "idle" /\ jobInfo[t] # NoJob

\* the elements of a sequence
Range(s) == {s[i] : i \in DOMAIN s}

\* the status the specification derives from a job state
DerivedStatus(state) ==
    CASE state = "passed" -> "completed"
      [] state = "failed" -> "completed"
      [] state = "errored" -> "completed"
      [] state = "canceled" -> "completed"
      [] state = "started" -> "in_progress"
      [] OTHER -> "queued"

\* the check runs of cs whose external_id is the one of job j of this build
ChecksOf(cs, j) == {c \in Range(cs) : c.external_id = ExternalId(buildInfo, j)}

\* the number of '/'-separated fields of an external id
NumFields(e) == Cardinality({i \in DOMAIN e : e[i] = "/"}) + 1
Malformed(e) == e = Undefined \/ e = <<>> \/ NumFields(e) # 3

\* C1: checksToCreate returns exactly the input jobs, in input order, for which no
\* check run of this app on the head commit carries the job's external_id with the
\* job's derived status and the job's name.
C1_ReturnsExactlyTheUnmatched ==
    \A t \in Tasks :
        (Diffed(t) /\ listed[t] = "ok") =>
            create[t] = SelectSeq(newJobs[t], LAMBDA j :
                            ~\E c \in ChecksOf(existingChecks[t], j) :
                                c.status = DerivedStatus(j.state) /\ c.name = j.name)

\* C2: checksToCreate does not return a job whose derived status and name equal
\* those of the most recently created check run for that job, whatever older check
\* runs for the job were listed and in whatever order.
C2_LatestCheckSuppresses ==
    \A t \in Tasks :
        (Diffed(t) /\ listed[t] = "ok") =>
            \A j \in Range(newJobs[t]) :
                \A c \in ChecksOf(existingChecks[t], j) :
                    ( /\ \A d \in ChecksOf(existingChecks[t], j) : d.id <= c.id
                      /\ c.status = DerivedStatus(j.state)
                      /\ c.name = j.name )
                    => j \notin Range(create[t])

\* C3: when the listing of the existing check runs fails on any page,
\* checksToCreate raises nothing and returns its input, contents and order.
C3_FailOpen ==
    \A t \in Tasks :
        /\ pc[t] # "threw"
        /\ (Diffed(t) /\ listed[t] = "error") => create[t] = newJobs[t]

\* the listing failed on its second page, after a first page that held a check run
\* which suppresses one of the two jobs passed
C3_Witness ==
    /\ Diffed("t1") /\ listed["t1"] = "error"
    /\ page["t1"] = 2
    /\ Len(newJobs["t1"]) = 2
    /\ \E j \in Range(newJobs["t1"]) :
          ~NeedsCreate(buildInfo, MyChecksOnPage(PageOf(remoteChecks, 1), appId), j)

\* the number a decimal string denotes
DigitValue(ch) == (CHOOSE i \in 1..10 : Digits[i] = ch) - 1
RECURSIVE ParseInt(_)
ParseInt(str) ==
    IF str = <<>> THEN 0
    ELSE 10 * ParseInt(SubSeq(str, 1, Len(str) - 1)) + DigitValue(str[Len(str)])

\* C4: every createCheck call issues the create call exactly once and returns
\* without raising, whatever getJobOutput did: the id of the created check run as
\* a decimal string when the create call succeeded, undefined when it failed.
C4_CreatesOnceAndReturns ==
    \A t \in Tasks :
        /\ pc[t] # "threw"
        /\ createCalls[t] <= 1
        /\ Created(t) =>
              /\ createCalls[t] = 1
              /\ IF result[t].ok
                 THEN ret[t] # Undefined /\ ParseInt(ret[t]) = result[t].id
                 ELSE ret[t] = Undefined

\* a createCheck call whose getJobOutput threw has created a check run and
\* returned its two-digit id
C4_Witness ==
    /\ Created("t1") /\ outputErr["t1"]
    /\ result["t1"].ok /\ Len(ret["t1"]) = 2
    /\ \E c \in Range(remoteChecks) : c.id = result["t1"].id

\* C5: getJobOutput is invoked only for a job whose derived status is completed and
\* whose conclusion is not cancelled, at most once, and before the create call.
C5_OutputOnlyForFinishedNotCancelled ==
    \A t \in Tasks :
        /\ outputCalls[t] <= 1
        /\ outputCalls[t] = 1 => jobInfo[t].state \in {"passed", "failed", "errored"}
        /\ pc[t] = "getJobOutput" => outputCalls[t] = 1 /\ createCalls[t] = 0

\* a createCheck call for a canceled job has returned
C5_Witness ==
    /\ Created("t1") /\ jobInfo["t1"].state = "canceled"
    /\ outputCalls["t1"] = 0 /\ createCalls["t1"] = 1

\* C6: the status of the payload is completed for passed, failed, errored and
\* canceled, in_progress for started, and queued for anything else; deriving it
\* raises nothing.
C6_StatusTable ==
    \A t \in Tasks :
        /\ pc[t] # "threw"
        /\ jobInfo[t] # NoJob =>
              /\ jobInfo[t].state = "passed" => payload[t].status = "completed"
              /\ jobInfo[t].state = "failed" => payload[t].status = "completed"
              /\ jobInfo[t].state = "errored" => payload[t].status = "completed"
              /\ jobInfo[t].state = "canceled" => payload[t].status = "completed"
              /\ jobInfo[t].state = "started" => payload[t].status = "in_progress"
              /\ jobInfo[t].state = "queued" => payload[t].status = "queued"
              /\ jobInfo[t].state = "unknown" => payload[t].status = "queued"

\* a check was created for a job in an unrecognized state, after one for a
\* finished job: the head commit holds a queued and a completed check run
C6_Witness ==
    /\ Created("t1") /\ jobInfo["t1"].state = "unknown"
    /\ \E c \in Range(remoteChecks) : c.status = "queued"
    /\ \E c \in Range(remoteChecks) : c.status = "completed"

\* the conclusion the specification gives for a finished job
Conclusion(j) ==
    CASE j.state = "passed" -> "success"
      [] j.state = "failed" /\ ~j.ignoreFailure -> "failure"
      [] j.state = "failed" /\ j.ignoreFailure -> "neutral"
      [] j.state = "canceled" -> "cancelled"
      [] j.state = "errored" -> "neutral"

\* C7: the payload createCheck sends carries a conclusion exactly when its status
\* is completed, and then the conclusion of the table; a payload whose status is
\* in_progress or queued carries no conclusion, no completed_at and no output.
C7_ConclusionTable ==
    \A t \in Tasks :
        (pc[t] = "create" \/ Created(t)) =>
            LET p == payload[t]  j == jobInfo[t]
            IN  /\ (p.conclusion # Absent) <=> (p.status = "completed")
                /\ p.status = "completed" =>
                      p.conclusion = Conclusion(j) /\ p.completed_at = j.finishedAt
                /\ p.status \in {"in_progress", "queued"} =>
                      p.conclusion = Absent /\ p.completed_at = Absent /\ p.output = Absent

\* the payload of a failed job whose failure is ignored is about to be sent, output
\* attached
C7_Witness ==
    /\ pc["t1"] = "create"
    /\ jobInfo["t1"].state = "failed" /\ jobInfo["t1"].ignoreFailure
    /\ payload["t1"].conclusion = "neutral" /\ payload["t1"].output = "out"

\* the places of the statuses with the Travis context
TravisAt == {i \in DOMAIN statuses : statuses[i].context = TravisContext}

\* C8: getLatestTravisStatus raises nothing; it returns undefined when the pull
\* request has no head, when no status has the Travis context, and when a fetch
\* failed; otherwise the repository, the head sha and the target_url of the first
\* status, in page order, with the Travis context.
C8_TravisStatus ==
    /\ tpc # "threw"
    /\ tpc = "returned" =>
          IF pr.head = <<>> \/ TravisAt = {} \/ tlogged
          THEN tret = UndefinedInfo
          ELSE LET first == CHOOSE i \in TravisAt : \A k \in TravisAt : i <= k
               IN  tret = [defined |-> TRUE, repository |-> TheRepo,
                           sha |-> pr.head[1].sha,
                           target_url |-> statuses[first].target_url]

\* a status was returned although a later page holds a Travis status with another
\* target_url
C8_Witness ==
    /\ tpc = "returned" /\ tret.defined
    /\ \E i, k \in TravisAt :
          /\ i <= PerPage /\ k > PerPage
          /\ statuses[i].target_url # statuses[k].target_url

\* what belongs to task t alone
Locals(t) ==
    <<pc[t], newJobs[t], page[t], collected[t], listed[t], existingChecks[t], create[t],
      jobInfo[t], payload[t], outputCalls[t], outputErr[t], createCalls[t], result[t],
      ret[t]>>

\* C9: nothing deduplicates concurrent work and the tasks share no mutable state:
\* every create call that succeeds adds a check run to the head commit, whatever
\* check runs are there; no step writes a field of the instance; and no step of one
\* task writes what belongs to another.
C9_NoDedupNoSharedState ==
    [][ /\ instVars' = instVars
        /\ Len(remoteChecks') =
              Len(remoteChecks)
              + Cardinality({t \in Tasks : result'[t] # result[t] /\ result'[t].ok})
        /\ \A t, u \in Tasks :
              t # u => (Locals(t)' = Locals(t) \/ Locals(u)' = Locals(u)) ]_vars

\* both tasks diffed the same job, both created a check for it, and the head commit
\* holds two check runs with one external_id
C9_Witness ==
    /\ \A t \in Tasks : Created(t) /\ result[t].ok /\ listed[t] = "ok"
    /\ \A t \in Tasks : create[t] = <<jobInfo[t]>>
    /\ jobInfo["t1"] = jobInfo["t2"]
    /\ \E c, d \in Range(remoteChecks) :
          /\ c.id = result["t1"].id /\ d.id = result["t2"].id
          /\ c.id # d.id
          /\ c.external_id = d.external_id

\* C10: an existing check run whose external_id is absent or has not exactly three
\* '/'-separated fields is for no job: it takes part in no decision of
\* checksToCreate.
C10_MalformedMatchesNoJob ==
    \A t \in Tasks :
        (Diffed(t) /\ listed[t] = "ok") =>
            \A j \in Range(newJobs[t]) :
                \A c \in Range(existingChecks[t]) :
                    Malformed(c.external_id) => ~IsCheckForJob(buildInfo, c, j)

====
